---- MODULE Spec2Model ----
(***************************************************************************)
(* watchf: the rebuild coordinator loop of main(), the supervisor thread   *)
(* that owns the child process in run mode, and the artifact extraction of *)
(* build().  Timestamps are integers; a missing file has the timestamp     *)
(* NoFile.                                                                 *)
(***************************************************************************)
EXTENDS Integers, Sequences, FiniteSets, TLC

\* ---------------------------------------------------------------- bounds
MaxTime == 2
MaxEvents == 3
MaxQueue == 2
MaxLines == 2
MaxOut == 3
PipeCap == 2

\* ------------------------------------------------------------ environment
NoFile == 0 - 1
Times == 0..MaxTime

SourceFiles == {"main.rs"}
ArtifactFiles == {"app"}
Files == SourceFiles \cup ArtifactFiles

Subcommands == {"build", "run"}

VARIABLES
    mode,          \* args.command
    bins,          \* HashMap<PathBuf, SystemTime>: function on its key set
    rebuild,       \* the pending flag
    last_rebuild,  \* SystemTime recorded at the start of the last attempt
    pc,            \* coordinator: "top", "building", "recv", "exited"
    res,           \* the result bound by `if let Ok(res) = rx.recv()`
    queue,         \* rx: notify results in flight, FIFO
    run_q,         \* run_rx: number of () messages in flight
    sup_pc,        \* supervisor thread position
    live,          \* children spawned and not yet reaped
    stdout,        \* captured output of the last build command
    artifacts,     \* Vec<PathBuf> returned by the last build()
    clock,         \* SystemTime::now()
    mtime,         \* file system: modification time of each file
    nBuilds,       \* build invocations started
    nOk,           \* build invocations that returned Ok
    nRestarts,     \* restart signals taken by the supervisor
    nDelivered,    \* results the watcher has sent
    arrived,       \* results sent since the running build started
    changed,       \* a source written while the last build was running:
                   \* "no", "written", or "sent" once a result followed it
    nSpawns,       \* children spawned by the supervisor
    burst,         \* two qualifying results queued during one build
    tool           \* the build command as build() sees it: its state, the
                   \* lines it has yet to write and the lines in its pipe

vars == <<mode, bins, rebuild, last_rebuild, pc, res, queue, run_q, sup_pc,
          live, stdout, artifacts, clock, mtime, nBuilds, nOk, nRestarts,
          nDelivered, arrived, burst, changed, nSpawns, tool>>

nRecv == nDelivered - Len(queue)

\* -------------------------------------------------- build(): extraction
\* One line of the build command's standard output.  json: the line parses
\* as a JSON value; reason: the "reason" member (absent: <<>>); full: the
\* value deserializes as CompilerArtifact; kind: target.kind; executable:
\* Option<PathBuf> (None: <<>>).
NotJson == [json |-> FALSE, reason |-> <<>>, full |-> FALSE, kind |-> {},
            executable |-> <<>>]

Reasons == {<<>>, <<"compiler-artifact">>, <<"build-finished">>}
Kinds == {{"bin"}, {"lib"}, {"lib", "bin"}}
Executables == {<<>>, <<"">>, <<"app">>, <<"app.d">>}

Lines == {NotJson} \cup
         [json : {TRUE}, reason : Reasons, full : BOOLEAN, kind : Kinds,
          executable : Executables]

RECURSIVE SeqsUpTo(_, _)
SeqsUpTo(S, n) ==
    IF n = 0 THEN {<<>>}
    ELSE LET T == SeqsUpTo(S, n - 1)
         IN T \cup {Append(t, x) : t \in {u \in T : Len(u) = n - 1}, x \in S}

ParsesAsValue(line) == line.json

IsCompilerArtifact(v) == v.reason = <<"compiler-artifact">>

DeserializesAsArtifact(v) == v.full

IsExecutable(a) == a.executable # <<>> /\ "bin" \in a.kind

RECURSIVE MapExecutable(_)
MapExecutable(s) ==
    IF s = <<>> THEN <<>>
    ELSE <<Head(s).executable[1]>> \o MapExecutable(Tail(s))

Extract(out) ==
    MapExecutable(
        SelectSeq(
            SelectSeq(
                SelectSeq(SelectSeq(out, ParsesAsValue), IsCompilerArtifact),
                DeserializesAsArtifact),
            IsExecutable))

\* --------------------------------------------------- coordinator helpers
Metadata(path) == IF path \in Files THEN mtime[path] ELSE NoFile

QualifiesGeq(modified, lr, b) ==
    modified >= lr /\ \E k \in DOMAIN b : modified >= b[k]

Qualifies(modified, lr, b) ==
    modified > lr /\ \E k \in DOMAIN b : modified > b[k]

ScanPathsFirstOnly(paths, lr, b) ==
    /\ paths # <<>>
    /\ Metadata(Head(paths)) # NoFile
    /\ Qualifies(Metadata(Head(paths)), lr, b)

RECURSIVE ScanPathsStopsAtMissing(_, _, _)
ScanPathsStopsAtMissing(paths, lr, b) ==
    IF paths = <<>> THEN FALSE
    ELSE LET modified == Metadata(Head(paths))
         IN IF modified = NoFile THEN FALSE
            ELSE IF Qualifies(modified, lr, b) THEN TRUE
            ELSE ScanPathsStopsAtMissing(Tail(paths), lr, b)

RECURSIVE ScanPaths(_, _, _)
ScanPaths(paths, lr, b) ==
    IF paths = <<>> THEN FALSE
    ELSE LET modified == Metadata(Head(paths))
         IN IF modified = NoFile THEN ScanPaths(Tail(paths), lr, b)
            ELSE IF Qualifies(modified, lr, b) THEN TRUE
            ELSE ScanPaths(Tail(paths), lr, b)

IsHandledAnyKind(r) == r.ok

IsHandled(r) == r.ok /\ r.kind # "remove"

SetsRebuild(r, lr, b) == IsHandled(r) /\ ScanPaths(r.paths, lr, b)

EmptyMap == [k \in {} |-> 0]

Upsert(b, path, modified) ==
    [k \in DOMAIN b \cup {path} |-> IF k = path THEN modified ELSE b[k]]

RECURSIVE InsertAllReplacing(_, _)
InsertAllReplacing(paths, b) ==
    IF paths = <<>> THEN [ok |-> TRUE, bins |-> EmptyMap]
    ELSE LET modified == Metadata(Head(paths))
             r == InsertAllReplacing(Tail(paths), b)
         IN IF modified = NoFile THEN [ok |-> FALSE, bins |-> EmptyMap]
            ELSE [ok |-> r.ok, bins |-> Upsert(r.bins, Head(paths), modified)]

\* for path in build(&config)? { metadata?; modified; insert }
RECURSIVE InsertAll(_, _)
InsertAll(paths, b) ==
    IF paths = <<>> THEN [ok |-> TRUE, bins |-> b]
    ELSE LET modified == Metadata(Head(paths))
         IN IF modified = NoFile THEN [ok |-> FALSE, bins |-> b]
            ELSE InsertAll(Tail(paths), Upsert(b, Head(paths), modified))

\* ------------------------------------------------------- watcher inputs
NoRes == [ok |-> FALSE, kind |-> "none", paths |-> <<>>]
WatchError == [ok |-> FALSE, kind |-> "error", paths |-> <<>>]
EventKinds == {"modify", "remove"}
\* "main.rs~" is an editor's temporary file, gone when it is looked at.
EventPaths == {<<"main.rs~", "app", "main.rs">>}
Results == {WatchError} \cup [ok : {TRUE}, kind : EventKinds, paths : EventPaths]

LineBin(p) == [json |-> TRUE, reason |-> <<"compiler-artifact">>,
               full |-> TRUE, kind |-> {"bin"}, executable |-> <<p>>]
LineLib == [json |-> TRUE, reason |-> <<"compiler-artifact">>,
            full |-> TRUE, kind |-> {"lib"}, executable |-> <<>>]
BuildOutputs == {<<LineLib>>, <<LineLib, LineBin("app")>>}

NoBurst == [base |-> 0, upto |-> 0, clean |-> FALSE]

\* In the coordinator's model a build is one step: the command is not shown.
NoTool == [st |-> "none", left |-> <<>>, pipe |-> <<>>]

InitialRebuildOff == FALSE

InitialRebuild == TRUE

\* ------------------------------------------------------------------ Init
Init ==
    /\ mode \in Subcommands
    /\ bins = EmptyMap
    /\ rebuild = InitialRebuild
    /\ last_rebuild = 0
    /\ pc = "top"
    /\ res = NoRes
    /\ queue = <<>>
    /\ run_q = 0
    /\ sup_pc = IF mode = "run" THEN "start" ELSE "none"
    /\ live = 0
    /\ stdout = <<>>
    /\ artifacts = <<>>
    /\ clock = 0
    /\ mtime \in [Files -> {NoFile, 0}]
    /\ mtime["main.rs"] = 0
    /\ nBuilds = 0
    /\ nOk = 0
    /\ nRestarts = 0
    /\ nDelivered = 0
    /\ arrived = 0
    /\ burst = NoBurst
    /\ changed = "no"
    /\ nSpawns = 0
    /\ tool = NoTool

\* ------------------------------------------------------------ coordinator
\* The process ends: the supervisor thread ends with it, the child stays.
SupAfterExit == IF sup_pc \in {"none", "panicked"} THEN sup_pc ELSE "exited"

\* if rebuild { rebuild = false; last_rebuild = now(); build(&config) ...
StartRebuild ==
    /\ pc = "top"
    /\ rebuild
    /\ rebuild' = FALSE
    /\ last_rebuild' = clock
    /\ pc' = "building"
    /\ res' = NoRes
    /\ nBuilds' = nBuilds + 1
    /\ arrived' = 0
    /\ changed' = "no"
    /\ UNCHANGED <<mode, tool, nSpawns, bins, queue, run_q, sup_pc, live, stdout, artifacts,
                   clock, mtime, nOk, nRestarts, nDelivered, burst>>

\* rebuild is false: fall through to rx.recv()
SkipRebuild ==
    /\ pc = "top"
    /\ ~rebuild
    /\ pc' = "recv"
    /\ res' = NoRes
    /\ UNCHANGED <<mode, tool, changed, nSpawns, bins, rebuild, last_rebuild, queue, run_q, sup_pc,
                   live, stdout, artifacts, clock, mtime, nBuilds, nOk,
                   nRestarts, nDelivered, arrived, burst>>

BuildFailsContinues ==
    /\ pc = "building"
    /\ pc' = "recv"
    /\ UNCHANGED <<mode, tool, changed, nSpawns, bins, rebuild, last_rebuild, res, queue, run_q,
                   sup_pc, live, stdout, artifacts, clock, mtime, nBuilds,
                   nOk, nRestarts, nDelivered, arrived, burst>>

BuildFailsRearms ==
    /\ pc = "building"
    /\ pc' = "exited"
    /\ sup_pc' = SupAfterExit
    /\ rebuild' = TRUE
    /\ UNCHANGED <<mode, tool, changed, nSpawns, bins, last_rebuild, res, queue,
                   run_q, live, stdout, artifacts, clock, mtime, nBuilds,
                   nOk, nRestarts, nDelivered, arrived, burst>>

\* cmd.wait()?.exit_ok()? is Err: build(&config)? returns from main
BuildFails ==
    /\ pc = "building"
    /\ pc' = "exited"
    /\ sup_pc' = SupAfterExit
    /\ UNCHANGED <<mode, tool, changed, nSpawns, bins, rebuild, last_rebuild, res, queue, run_q,
                   live, stdout, artifacts, clock, mtime, nBuilds, nOk,
                   nRestarts, nDelivered, arrived, burst>>

\* Both queued results were sent during this build and both would be
\* classified as qualifying while it is still running.
BurstQueued ==
    /\ Len(queue) = 2
    /\ arrived = 2
    /\ \A i \in 1..2 : SetsRebuild(queue[i], last_rebuild, bins)

BuildReturnsIgnoresSend(out) ==
    LET paths == Extract(out)
        r == InsertAll(paths, bins)
        sent == r.ok /\ mode = "run" /\ sup_pc # "panicked"
        fatal == ~r.ok
    IN /\ pc = "building"
       /\ stdout' = out
       /\ artifacts' = paths
       /\ nOk' = nOk + 1
       /\ bins' = r.bins
       /\ run_q' = IF sent THEN run_q + 1 ELSE run_q
       /\ pc' = IF fatal THEN "exited" ELSE "recv"
       /\ sup_pc' = IF fatal THEN SupAfterExit ELSE sup_pc
       /\ burst' = IF ~fatal /\ burst = NoBurst /\ BurstQueued
                   THEN [base |-> nBuilds, upto |-> nRecv + 2, clean |-> TRUE]
                   ELSE burst
       /\ arrived' = 0
       /\ UNCHANGED <<mode, tool, changed, nSpawns, rebuild, last_rebuild, res, queue, live, clock,
                      mtime, nBuilds, nRestarts, nDelivered>>

\* build() returns Ok(artifacts); the map is updated; in run mode the
\* restart signal is sent.
BuildReturns(out) ==
    LET paths == Extract(out)
        r == InsertAll(paths, bins)
        sent == r.ok /\ mode = "run"
        fatal == ~r.ok \/ (sent /\ sup_pc = "panicked")
    IN /\ pc = "building"
       /\ stdout' = out
       /\ artifacts' = paths
       /\ nOk' = nOk + 1
       /\ bins' = r.bins
       /\ run_q' = IF sent /\ ~fatal THEN run_q + 1 ELSE run_q
       /\ pc' = IF fatal THEN "exited" ELSE "recv"
       /\ sup_pc' = IF fatal THEN SupAfterExit ELSE sup_pc
       /\ burst' = IF ~fatal /\ burst = NoBurst /\ BurstQueued
                   THEN [base |-> nBuilds, upto |-> nRecv + 2, clean |-> TRUE]
                   ELSE burst
       /\ arrived' = 0
       /\ UNCHANGED <<mode, tool, changed, nSpawns, rebuild, last_rebuild, res, queue, live, clock,
                      mtime, nBuilds, nRestarts, nDelivered>>

RecvErrorFatal ==
    /\ pc = "recv"
    /\ queue # <<>>
    /\ res' = Head(queue)
    /\ queue' = Tail(queue)
    /\ rebuild' = IF SetsRebuild(Head(queue), last_rebuild, bins)
                  THEN TRUE ELSE rebuild
    /\ pc' = IF Head(queue).ok THEN "top" ELSE "exited"
    /\ sup_pc' = IF Head(queue).ok THEN sup_pc ELSE SupAfterExit
    /\ UNCHANGED <<mode, tool, changed, nSpawns, bins, last_rebuild, run_q, live, stdout,
                   artifacts, clock, mtime, nBuilds, nOk, nRestarts,
                   nDelivered, arrived, burst>>

\* if let Ok(res) = rx.recv() { match res { ... } }
Recv ==
    /\ pc = "recv"
    /\ queue # <<>>
    /\ res' = Head(queue)
    /\ queue' = Tail(queue)
    /\ rebuild' = IF SetsRebuild(Head(queue), last_rebuild, bins)
                  THEN TRUE ELSE rebuild
    /\ pc' = "top"
    /\ UNCHANGED <<mode, tool, changed, nSpawns, bins, last_rebuild, run_q, sup_pc, live, stdout,
                   artifacts, clock, mtime, nBuilds, nOk, nRestarts,
                   nDelivered, arrived, burst>>

\* ------------------------------------------------------------- supervisor
SupSpawnAfterSignal ==
    /\ sup_pc \in {"start", "reaped"}
    /\ sup_pc = "start" => run_q > 0
    /\ run_q' = IF sup_pc = "start" THEN run_q - 1 ELSE run_q
    /\ live' = live + 1
    /\ nSpawns' = nSpawns + 1
    /\ sup_pc' = "idle"
    /\ UNCHANGED <<mode, tool, changed, bins, rebuild, last_rebuild, pc, res, queue,
                   stdout, artifacts, clock, mtime, nBuilds, nOk, nRestarts,
                   nDelivered, arrived, burst>>

\* Command::new(..).spawn().unwrap(), first or after a restart
SupSpawn ==
    /\ sup_pc \in {"start", "reaped"}
    /\ live' = live + 1
    /\ nSpawns' = nSpawns + 1
    /\ sup_pc' = "idle"
    /\ UNCHANGED <<mode, tool, changed, bins, rebuild, last_rebuild, pc, res, queue, run_q,
                   stdout, artifacts, clock, mtime, nBuilds, nOk, nRestarts,
                   nDelivered, arrived, burst>>

\* spawn() is Err: unwrap panics the thread, run_rx is dropped
SupSpawnFails ==
    /\ sup_pc \in {"start", "reaped"}
    /\ sup_pc' = "panicked"
    /\ UNCHANGED <<mode, tool, changed, nSpawns, bins, rebuild, last_rebuild, pc, res, queue, run_q,
                   live, stdout, artifacts, clock, mtime, nBuilds, nOk,
                   nRestarts, nDelivered, arrived, burst>>

SupKillSpurious ==
    /\ sup_pc = "idle"
    /\ nRestarts <= MaxEvents
    /\ sup_pc' = "killed"
    /\ nRestarts' = nRestarts + 1
    /\ UNCHANGED <<mode, tool, changed, nSpawns, bins, rebuild, last_rebuild, pc, res, queue, run_q,
                   live, stdout, artifacts, clock, mtime, nBuilds, nOk,
                   nDelivered, arrived, burst>>

SupKillDrains ==
    /\ sup_pc = "idle"
    /\ run_q > 0
    /\ run_q' = 0
    /\ sup_pc' = "killed"
    /\ nRestarts' = nRestarts + 1
    /\ UNCHANGED <<mode, tool, changed, nSpawns, bins, rebuild, last_rebuild, pc, res, queue, live,
                   stdout, artifacts, clock, mtime, nBuilds, nOk, nDelivered,
                   arrived, burst>>

\* for _ in run_rx { prog.kill()...unwrap();
SupKill ==
    /\ sup_pc = "idle"
    /\ run_q > 0
    /\ run_q' = run_q - 1
    /\ sup_pc' = "killed"
    /\ nRestarts' = nRestarts + 1
    /\ UNCHANGED <<mode, tool, changed, nSpawns, bins, rebuild, last_rebuild, pc, res, queue, live,
                   stdout, artifacts, clock, mtime, nBuilds, nOk, nDelivered,
                   arrived, burst>>

\* prog.kill() is Err: unwrap panics the thread with the child not reaped
SupKillFails ==
    /\ sup_pc = "idle"
    /\ run_q > 0
    /\ run_q' = run_q - 1
    /\ sup_pc' = "panicked"
    /\ UNCHANGED <<mode, tool, changed, nSpawns, bins, rebuild, last_rebuild, pc, res, queue, live,
                   stdout, artifacts, clock, mtime, nBuilds, nOk, nRestarts,
                   nDelivered, arrived, burst>>

SupWaitNoReap ==
    /\ sup_pc = "killed"
    /\ live < 2
    /\ sup_pc' = "reaped"
    /\ UNCHANGED <<mode, tool, changed, nSpawns, bins, rebuild, last_rebuild, pc, res, queue, run_q,
                   live, stdout, artifacts, clock, mtime, nBuilds, nOk,
                   nRestarts, nDelivered, arrived, burst>>

\* prog.wait().unwrap(): the killed child has exited and is reaped
SupWait ==
    /\ sup_pc = "killed"
    /\ live' = live - 1
    /\ sup_pc' = "reaped"
    /\ UNCHANGED <<mode, tool, changed, nSpawns, bins, rebuild, last_rebuild, pc, res, queue, run_q,
                   stdout, artifacts, clock, mtime, nBuilds, nOk, nRestarts,
                   nDelivered, arrived, burst>>

\* ------------------------------------------------- watcher and file system
\* the notify watcher thread sends one result on tx
Deliver(r) ==
    /\ pc # "exited"
    /\ nDelivered < MaxEvents
    /\ Len(queue) < MaxQueue
    /\ queue' = Append(queue, r)
    /\ nDelivered' = nDelivered + 1
    /\ arrived' = IF pc = "building" THEN arrived + 1 ELSE arrived
    /\ changed' = IF changed = "written" /\ r.ok THEN "sent" ELSE changed
    /\ UNCHANGED <<mode, tool, nSpawns, bins, rebuild, last_rebuild, pc, res, run_q, sup_pc,
                   live, stdout, artifacts, clock, mtime, nBuilds, nOk,
                   nRestarts, burst>>

\* Time passes.  Timestamps are only ever compared, so the clock moves on
\* only from an instant that stamped something.
Tick ==
    /\ pc # "exited"
    /\ clock < MaxTime
    /\ last_rebuild = clock \/ \E f \in Files : mtime[f] = clock
    /\ clock' = clock + 1
    /\ UNCHANGED <<mode, tool, changed, nSpawns, bins, rebuild, last_rebuild, pc, res, queue, run_q,
                   sup_pc, live, stdout, artifacts, mtime, nBuilds, nOk,
                   nRestarts, nDelivered, arrived, burst>>

\* a watched source file is written
Touch(f) ==
    /\ pc # "exited"
    /\ mtime[f] # clock
    /\ mtime' = [mtime EXCEPT ![f] = clock]
    /\ burst' = IF burst = NoBurst THEN burst ELSE [burst EXCEPT !.clean = FALSE]
    /\ changed' = IF changed = "no" /\ pc = "building" /\ clock > last_rebuild
                  THEN "written" ELSE changed
    /\ UNCHANGED <<mode, tool, nSpawns, bins, rebuild, last_rebuild, pc, res, queue, run_q,
                   sup_pc, live, stdout, artifacts, clock, nBuilds, nOk,
                   nRestarts, nDelivered, arrived>>

\* the running build command writes one of its outputs
BuildWrites(f) ==
    /\ pc = "building"
    /\ mtime[f] # clock
    /\ mtime' = [mtime EXCEPT ![f] = clock]
    /\ UNCHANGED <<mode, tool, changed, nSpawns, bins, rebuild, last_rebuild, pc, res, queue, run_q,
                   sup_pc, live, stdout, artifacts, clock, nBuilds, nOk,
                   nRestarts, nDelivered, arrived, burst>>

\* SystemTime is the wall clock: it is not monotonic and may be set back.
ClockStepsBack ==
    /\ pc # "exited"
    /\ clock > 0
    /\ clock' = clock - 1
    /\ UNCHANGED <<mode, tool, changed, nSpawns, bins, rebuild, last_rebuild, pc, res, queue, run_q,
                   sup_pc, live, stdout, artifacts, mtime, nBuilds, nOk,
                   nRestarts, nDelivered, arrived, burst>>

Next ==
    \/ StartRebuild
    \/ SkipRebuild
    \/ BuildFails
    \/ \E out \in BuildOutputs : BuildReturns(out)
    \/ Recv
    \/ SupSpawn
    \/ SupSpawnFails
    \/ SupKill
    \/ SupKillFails
    \/ SupWait
    \/ \E r \in Results : Deliver(r)
    \/ Tick
    \/ \E f \in SourceFiles : Touch(f)
    \/ \E f \in ArtifactFiles : BuildWrites(f)

Spec == Init /\ [][Next]_vars

\* The same program under a wall clock that may also be set back.
NextClock == Next \/ ClockStepsBack

SpecClock == Init /\ [][NextClock]_vars

\* The supervisor is a thread of its own: the scheduler lets it take the
\* step it is ready for.
FairSpec ==
    Spec /\ WF_vars(SupSpawn) /\ WF_vars(SupKill) /\ WF_vars(SupWait)

TypeOK ==
    /\ mode \in Subcommands
    /\ rebuild \in BOOLEAN
    /\ last_rebuild \in Times
    /\ pc \in {"top", "building", "recv", "exited"}
    /\ live \in Nat
    /\ run_q \in Nat

\* ------------------------------------------- build(): parsing on its own
\* The captured output is any sequence of at most MaxLines lines; the one
\* step is the iterator chain of build().
InitExtract ==
    /\ stdout \in SeqsUpTo(Lines, MaxLines)
    /\ artifacts = <<>>
    /\ pc = "parse"
    /\ mode = "build"
    /\ bins = EmptyMap
    /\ rebuild = FALSE
    /\ last_rebuild = 0
    /\ res = NoRes
    /\ queue = <<>>
    /\ run_q = 0
    /\ sup_pc = "none"
    /\ live = 0
    /\ clock = 0
    /\ mtime = [f \in Files |-> NoFile]
    /\ nBuilds = 1
    /\ nOk = 0
    /\ nRestarts = 0
    /\ nDelivered = 0
    /\ arrived = 0
    /\ burst = NoBurst
    /\ changed = "no"
    /\ nSpawns = 0
    /\ tool = NoTool

ExtractOutput ==
    /\ pc = "parse"
    /\ artifacts' = Extract(stdout)
    /\ pc' = "parsed"
    /\ UNCHANGED <<mode, tool, changed, nSpawns, bins, rebuild, last_rebuild, res, queue, run_q,
                   sup_pc, live, stdout, clock, mtime, nBuilds, nOk,
                   nRestarts, nDelivered, arrived, burst>>

NextExtract == ExtractOutput

SpecExtract == InitExtract /\ [][NextExtract]_vars

\* --------------------------------- build(): the command and its pipe
\* The command has been spawned with its standard output on a pipe that
\* holds at most PipeCap lines; it is about to write any sequence of at
\* most MaxOut lines and then exit.  build() is in cmd.wait().
PipeLines == {NotJson, LineLib, LineBin("app")}

InitPipe ==
    /\ tool \in [st : {"running"}, left : SeqsUpTo(PipeLines, MaxOut),
                 pipe : {<<>>}]
    /\ pc = "waiting"
    /\ stdout = <<>>
    /\ artifacts = <<>>
    /\ mode = "build"
    /\ bins = EmptyMap
    /\ rebuild = FALSE
    /\ last_rebuild = 0
    /\ res = NoRes
    /\ queue = <<>>
    /\ run_q = 0
    /\ sup_pc = "none"
    /\ live = 0
    /\ clock = 0
    /\ mtime = [f \in Files |-> NoFile]
    /\ nBuilds = 1
    /\ nOk = 0
    /\ nRestarts = 0
    /\ nDelivered = 0
    /\ arrived = 0
    /\ burst = NoBurst
    /\ changed = "no"
    /\ nSpawns = 0

\* the command writes its next line; write() blocks while the pipe is full
ToolWrites ==
    /\ tool.st = "running"
    /\ tool.left # <<>>
    /\ Len(tool.pipe) < PipeCap
    /\ tool' = [tool EXCEPT !.left = Tail(tool.left),
                            !.pipe = Append(tool.pipe, Head(tool.left))]
    /\ UNCHANGED <<mode, bins, rebuild, last_rebuild, pc, res, queue, run_q,
                   sup_pc, live, stdout, artifacts, clock, mtime, nBuilds,
                   nOk, nRestarts, nDelivered, arrived, burst, changed,
                   nSpawns>>

\* the command exits: with success once all its output is written, with
\* failure at any point where it is not blocked in write()
ToolExits(st) ==
    /\ tool.st = "running"
    /\ st = "success" => tool.left = <<>>
    /\ tool.left = <<>> \/ Len(tool.pipe) < PipeCap
    /\ tool' = [tool EXCEPT !.st = st]
    /\ UNCHANGED <<mode, bins, rebuild, last_rebuild, pc, res, queue, run_q,
                   sup_pc, live, stdout, artifacts, clock, mtime, nBuilds,
                   nOk, nRestarts, nDelivered, arrived, burst, changed,
                   nSpawns>>

\* cmd.wait()?.exit_ok()? returns once the command has exited
WaitReturns ==
    /\ pc = "waiting"
    /\ tool.st \in {"success", "failure"}
    /\ pc' = IF tool.st = "success" THEN "reading" ELSE "failed"
    /\ UNCHANGED <<mode, tool, bins, rebuild, last_rebuild, res, queue, run_q,
                   sup_pc, live, stdout, artifacts, clock, mtime, nBuilds,
                   nOk, nRestarts, nDelivered, arrived, burst, changed,
                   nSpawns>>

\* stdout_r.read_to_string(&mut stdout)?: everything up to end of file
ReadStdout ==
    /\ pc = "reading"
    /\ stdout' = tool.pipe
    /\ tool' = [tool EXCEPT !.pipe = <<>>]
    /\ pc' = "parse"
    /\ UNCHANGED <<mode, bins, rebuild, last_rebuild, res, queue, run_q,
                   sup_pc, live, artifacts, clock, mtime, nBuilds, nOk,
                   nRestarts, nDelivered, arrived, burst, changed, nSpawns>>

NextPipe ==
    \/ ToolWrites
    \/ \E st \in {"success", "failure"} : ToolExits(st)
    \/ WaitReturns
    \/ ReadStdout
    \/ ExtractOutput

SpecPipe == InitPipe /\ [][NextPipe]_vars

\* ================================================================ claims
ToSet(s) == {s[i] : i \in DOMAIN s}

\* A step of the coordinator that services the head of the queue.
Services == pc = "recv" /\ pc' = "top"

\* C1: in run mode every restart taken or still queued is covered by a
\* distinct build that returned success, and a build attempt that ends the
\* coordinator sends no restart signal.
RestartOnlyAfterSuccess ==
    /\ [](nRestarts + run_q <= nOk)
    /\ [][(pc = "building" /\ pc' = "exited")
              => (run_q' = run_q /\ nRestarts' = nRestarts)]_vars

RestartAfterSuccessReached ==
    mode = "run" /\ nRestarts = 2 /\ nOk = 2 /\ sup_pc = "idle" /\ live = 1

\* C2: a build attempt that ends without returning Ok ends the coordinator
\* with the artifact map and the signal channel untouched, and once it has
\* ended nothing is built, received or sent any more.
BuildFailureHalts ==
    [][/\ (pc = "building" /\ pc' # "building" /\ nOk' = nOk)
              => (pc' = "exited" /\ bins' = bins /\ run_q' = run_q)
       /\ pc = "exited"
              => (pc' = "exited" /\ bins' = bins /\ run_q' = run_q
                  /\ nBuilds' = nBuilds /\ queue' = queue
                  /\ nRestarts' = nRestarts)]_vars

BuildFailureReached ==
    /\ pc = "exited" /\ nBuilds = 2 /\ nOk = 1
    /\ mode = "run" /\ queue # <<>> /\ bins # EmptyMap

\* C3: the flag is set at startup, no result is received before the first
\* build has been invoked, and exactly one build has been invoked when the
\* coordinator first waits, whatever is queued by then.
InitialBuild ==
    /\ (nBuilds = 0 /\ pc = "top") => rebuild
    /\ nRecv = 0 => nBuilds <= 1
    /\ pc = "recv" => nBuilds >= 1

InitialBuildReached ==
    pc = "recv" /\ nRecv = 0 /\ nBuilds = 1 /\ Len(queue) >= 2

\* Every readable path of result r is no newer than the last rebuild or no
\* newer than every recorded artifact.
AllStale(r) ==
    \A i \in DOMAIN r.paths :
        LET m == Metadata(r.paths[i])
        IN \/ m = NoFile
           \/ m <= last_rebuild
           \/ \A k \in DOMAIN bins : m <= bins[k]

\* Some readable path of result r is newer than the last rebuild and newer
\* than some recorded artifact.
SomeFresh(r) ==
    \E i \in DOMAIN r.paths :
        LET m == Metadata(r.paths[i])
        IN /\ m # NoFile
           /\ m > last_rebuild
           /\ \E k \in DOMAIN bins : m > bins[k]

\* C4: servicing a result all of whose readable paths are stale leaves the
\* pending flag clear.
NoSpuriousRebuild == [][(Services /\ AllStale(Head(queue))) => ~rebuild']_vars

NoSpuriousReached ==
    /\ pc = "top" /\ ~rebuild /\ res.ok /\ res.kind = "modify"
    /\ bins # EmptyMap
    /\ Metadata("main.rs") > last_rebuild
    /\ AllStale(res)

\* C5: servicing a non-removed event with at least one fresh readable path
\* sets the pending flag, and the coordinator's next step from the loop head
\* with the flag set is a build invocation.
QualifyingRebuild ==
    [][/\ (Services /\ Head(queue).ok /\ Head(queue).kind # "remove"
              /\ SomeFresh(Head(queue))) => rebuild'
       /\ (pc = "top" /\ rebuild /\ pc' # pc)
              => (pc' = "building" /\ nBuilds' = nBuilds + 1)]_vars

QualifyingReached ==
    /\ pc = "top" /\ rebuild /\ res.ok /\ res.kind = "modify"
    /\ Metadata(res.paths[1]) = NoFile
    /\ Metadata(res.paths[2]) # NoFile
    /\ ~Qualifies(Metadata(res.paths[2]), last_rebuild, bins)
    /\ SomeFresh(res)

\* C6: servicing an event of kind "remove" never sets the pending flag.
RemovalIgnored ==
    [][(Services /\ Head(queue).kind = "remove") => ~rebuild']_vars

RemovalIgnoredReached ==
    pc = "top" /\ res.kind = "remove" /\ ~rebuild /\ SomeFresh(res)

\* C7: when two results that qualify while a build is running were both
\* queued during that build and no source is written afterwards, then once
\* both have been serviced and the coordinator waits again, exactly one
\* build has been invoked after the one that was running.
SequentialBuildsCoalesce ==
    (burst.clean /\ pc = "recv" /\ nRecv = burst.upto)
        => nBuilds = burst.base + 1

\* The record is one the extraction is said to keep.
IsReported(l) ==
    /\ l.json /\ l.full
    /\ l.reason = <<"compiler-artifact">>
    /\ "bin" \in l.kind
    /\ l.executable # <<>>
    /\ l.executable # <<"">>

\* C8: the extraction returns, in output order, exactly the executable
\* paths of the finished-artifact records of an executable kind whose
\* executable path is present and non-empty.
ExtractionFilters ==
    pc = "parsed" => artifacts = MapExecutable(SelectSeq(stdout, IsReported))

\* C9 as stated: after a successful rebuild the key set of the artifact map
\* is exactly the set of paths the latest build reported.
ArtifactMapExact ==
    (pc = "recv" /\ nOk >= 1) => DOMAIN bins = ToSet(artifacts)

\* C9 as amended: after a successful rebuild the key set of the artifact
\* map contains every path the latest build reported, and no step ever
\* removes a key.
ArtifactMapGrows ==
    /\ [](pc = "recv" => ToSet(artifacts) \subseteq DOMAIN bins)
    /\ [][DOMAIN bins \subseteq DOMAIN bins']_vars

ArtifactMapStaleReached ==
    /\ pc = "recv" /\ nOk >= 2
    /\ "app" \in DOMAIN bins
    /\ "app" \notin ToSet(artifacts)

\* C10: at most one child is spawned and not yet reaped, and a child is
\* spawned only when none is live: at the thread's start or after the
\* killed child has been reaped.
AtMostOneLiveChild ==
    /\ [](live <= 1)
    /\ [][(live' = live + 1)
              => (live = 0 /\ sup_pc \in {"start", "reaped"})]_vars
    /\ [][(sup_pc # "reaped" /\ sup_pc' = "reaped")
              => (sup_pc = "killed" /\ live' = 0)]_vars

RespawnedReached ==
    mode = "run" /\ nRestarts >= 1 /\ sup_pc = "idle" /\ live = 1

\* C11: receiving a watch error leaves the pending flag, the last rebuild
\* time and the artifact map as they were and keeps the coordinator in
\* its loop: it goes back to waiting, where a qualifying event is
\* serviced as usual.
WatchErrorNonFatal ==
    [][/\ (pc = "recv" /\ pc' # pc /\ Head(queue) = WatchError)
              => (pc' = "top" /\ res' = WatchError /\ queue' = Tail(queue)
                  /\ UNCHANGED <<rebuild, last_rebuild, bins>>)
       /\ (pc = "top" /\ res = WatchError /\ pc' # pc)
              => (pc' = "recv" /\ UNCHANGED <<rebuild, last_rebuild, bins>>)
      ]_vars

WatchErrorServiced ==
    /\ pc = "top" /\ res = WatchError /\ ~rebuild
    /\ queue # <<>> /\ SetsRebuild(Head(queue), last_rebuild, bins)

\* C12: the last rebuild time never decreases; it is assigned exactly once
\* per rebuild attempt, in the step that clears the pending flag and
\* invokes the build, and in no other step.
LastRebuildMonotonic ==
    [][/\ last_rebuild' >= last_rebuild
       /\ (last_rebuild' # last_rebuild \/ nBuilds' # nBuilds)
              => (/\ pc = "top" /\ pc' = "building"
                  /\ rebuild /\ ~rebuild'
                  /\ nBuilds' = nBuilds + 1
                  /\ last_rebuild' = clock)]_vars

\* C13: when a source was written while the last build was running, with a
\* time later than the one recorded for that build, and the artifact map
\* is not empty, servicing a non-removed event that was sent after the
\* write and names the source sets the pending flag.
InFlightChangeRebuilt ==
    [][(/\ Services
        /\ changed = "sent"
        /\ Len(queue) = 1
        /\ bins # EmptyMap
        /\ Head(queue).ok /\ Head(queue).kind # "remove"
        /\ \E i \in DOMAIN Head(queue).paths :
               /\ Head(queue).paths[i] \in SourceFiles
               /\ Metadata(Head(queue).paths[i]) > last_rebuild)
            => rebuild']_vars

\* C14: once a build has succeeded and the coordinator is still running,
\* the artifact map is not empty.
ArtifactMapNonEmpty ==
    (nOk >= 1 /\ pc # "exited") => bins # EmptyMap

\* C15: the pending flag is set only by servicing a non-removed event with
\* a fresh readable path, and cleared only by the step that starts a
\* rebuild attempt; it is clear while the build runs, and a build that
\* ends the coordinator leaves it clear.
PendingTransitions ==
    /\ [](pc = "building" => ~rebuild)
    /\ [][/\ (~rebuild /\ rebuild')
                 => (/\ Services
                     /\ Head(queue).ok /\ Head(queue).kind # "remove"
                     /\ SomeFresh(Head(queue)))
          /\ (rebuild /\ ~rebuild')
                 => (pc = "top" /\ pc' = "building"
                     /\ nBuilds' = nBuilds + 1)
          /\ (pc = "building" /\ pc' = "exited") => ~rebuild']_vars

PendingClearAfterFailure ==
    /\ pc = "exited" /\ ~rebuild
    /\ nBuilds >= 2 /\ nOk = nBuilds - 1
    /\ mode = "build"

\* Result r names an unreadable path followed, later in the same event, by
\* a fresh readable one.
FreshAfterMissing(r) ==
    \E i, j \in DOMAIN r.paths :
        /\ i < j
        /\ Metadata(r.paths[i]) = NoFile
        /\ Metadata(r.paths[j]) # NoFile
        /\ Metadata(r.paths[j]) > last_rebuild
        /\ \E k \in DOMAIN bins : Metadata(r.paths[j]) > bins[k]

\* C16: servicing an event with an unreadable path keeps the coordinator
\* in its loop, and a fresh readable path later in the same non-removed
\* event still sets the pending flag.
MissingPathSkipped ==
    [][/\ (pc = "recv" /\ pc' # pc
              /\ \E i \in DOMAIN Head(queue).paths :
                     Metadata(Head(queue).paths[i]) = NoFile)
              => pc' = "top"
       /\ (Services /\ Head(queue).ok /\ Head(queue).kind # "remove"
              /\ FreshAfterMissing(Head(queue)))
              => rebuild']_vars

MissingPathSkippedReached ==
    /\ pc = "top" /\ rebuild /\ res.ok
    /\ FreshAfterMissing(res)

\* The supervisor thread is still running its loop.
SupAlive == sup_pc \in {"start", "idle", "killed", "reaped"}

\* C17: in build mode no signal is ever sent; in run mode every build
\* after which the coordinator goes on adds exactly one signal to the
\* channel, a signal leaves the channel only one at a time by being
\* received by the supervisor, and while the supervisor is alive the
\* restarts taken plus the signals queued equal the successful builds;
\* a fairly scheduled live supervisor ends with an empty channel and one
\* spawn more than there were successful builds.
SignalsQueued ==
    /\ [](mode = "build" => (run_q = 0 /\ nRestarts = 0 /\ nSpawns = 0))
    /\ [](SupAlive => nRestarts + run_q = nOk)
    /\ [][/\ (pc = "building" /\ pc' = "recv")
                 => run_q' = IF mode = "run" THEN run_q + 1 ELSE run_q
          /\ (run_q' > run_q)
                 => (pc = "building" /\ pc' = "recv" /\ nOk' = nOk + 1
                     /\ run_q' = run_q + 1)
          /\ (run_q' < run_q)
                 => (/\ sup_pc = "idle" /\ run_q' = run_q - 1
                     /\ \/ sup_pc' = "killed" /\ nRestarts' = nRestarts + 1
                        \/ sup_pc' = "panicked")]_vars
    /\ <>[](SupAlive => (run_q = 0 /\ nSpawns = 1 + nOk))

SignalsQueuedReached ==
    mode = "run" /\ run_q = 2 /\ nOk = 2 /\ nSpawns = 1 /\ SupAlive

\* C18: with the supervisor thread panicked, a build attempt in run mode
\* never leaves the coordinator running: the step that ends the attempt
\* ends the coordinator, adds no signal, and no build is started after.
SupervisorFailureSpreads ==
    /\ [][(sup_pc = "panicked" /\ pc = "building" /\ pc' # pc)
              => (pc' = "exited" /\ run_q' = run_q)]_vars
    /\ [][pc = "exited"
              => (pc' = "exited" /\ nBuilds' = nBuilds /\ nOk' = nOk)]_vars

SendOnClosedChannelReached ==
    /\ mode = "run" /\ pc = "exited" /\ sup_pc = "panicked"
    /\ nBuilds >= 2 /\ nOk = nBuilds
    /\ \A i \in DOMAIN artifacts :
           /\ Metadata(artifacts[i]) # NoFile
           /\ artifacts[i] \in DOMAIN bins

\* C20: the first spawn waits for no signal and takes none, whatever the
\* coordinator is doing; every signal the supervisor receives, the first
\* one included, finds a child that is already running and is followed
\* by its kill; later spawns each follow a restart.
FirstSpawnUnordered ==
    /\ [][(nSpawns = 0 /\ nSpawns' # nSpawns)
              => (/\ sup_pc = "start" /\ nSpawns' = 1 /\ live' = 1
                  /\ run_q' = run_q /\ nRestarts' = nRestarts
                  /\ UNCHANGED <<pc, nBuilds, nOk>>)]_vars
    /\ [][(run_q' < run_q)
              => (sup_pc = "idle" /\ nSpawns >= 1 /\ live = 1)]_vars
    /\ [](nRestarts <= nSpawns /\ nSpawns <= nRestarts + 1)
    /\ []((nRestarts >= 1 /\ sup_pc = "idle") => nSpawns = nRestarts + 1)

ChildRunsBeforeAnyBuild ==
    /\ mode = "run" /\ live = 1 /\ nSpawns = 1
    /\ pc = "exited" /\ nBuilds = 1 /\ nOk = 0

\* C19: while build() waits for the command to exit, a command that has
\* output left to write can always write it: the coordinator waiting for
\* the exit and the command waiting for room in the pipe never coexist.
BuildCallReturns ==
    (pc = "waiting" /\ tool.st = "running" /\ tool.left # <<>>)
        => Len(tool.pipe) < PipeCap

====
